---- MODULE Spec2Model ----
(***************************************************************************)
(* SD-MIAE (src/sdmiae.py): the denoising loop of forward_diffusion, the   *)
(* momentum-iterative signed-gradient loop of sdmiae_attack, and the       *)
(* class/sample loops of main.                                             *)
(*                                                                         *)
(* Tensors are functions from a pixel index to a value.  Real values are   *)
(* exact rationals <<numerator, denominator>> in lowest terms with a       *)
(* positive denominator, so epsilon / num_iter, the L1 normalisation and   *)
(* the momentum recurrence are computed without rounding.  The classifier  *)
(* and the denoising network are opaque: the raw gradient of an iteration  *)
(* and the decoded image are inputs chosen from bounded sets.              *)
(*                                                                         *)
(* Spec     runs one image through forward_diffusion and sdmiae_attack,    *)
(*          the arguments of both drawn from bounded sets.                 *)
(* SpecMain runs the class and sample loops of main, each engine call one  *)
(*          step.                                                          *)
(***************************************************************************)
EXTENDS Integers, Sequences, FiniteSets, TLC

\* ---------------------------------------------------------------- bounds
MaxIter == 3        \* num_iter ranges over 0..MaxIter
MaxSteps == 2       \* num_inference_steps ranges over 1..MaxSteps
MaxClasses == 2     \* class_ids lies inside 0..MaxClasses-1
MaxSamples == 2     \* num_samples_per_class ranges over 0..MaxSamples

\* The stabilising constant 1e-10 of line 62.  Raw gradients are measured in
\* units of 1e-10, so the constant is one unit.
Stabilizer == 1

\* the components of an image tensor
Pix == {1, 2}

\* ------------------------------------------------------ exact arithmetic
Abs(x) == IF x < 0 THEN -x ELSE x

RECURSIVE GCD(_, _)
GCD(a, b) == IF b = 0 THEN a ELSE GCD(b, a % b)

\* n / d in lowest terms, d # 0
Rat(n, d) ==
  LET g == GCD(Abs(n), Abs(d))
      s == IF d < 0 THEN -1 ELSE 1
  IN  <<(s * n) \div g, (s * d) \div g>>

Zero == <<0, 1>>
One == <<1, 1>>

RAdd(a, b) == Rat(a[1] * b[2] + b[1] * a[2], a[2] * b[2])
RSub(a, b) == Rat(a[1] * b[2] - b[1] * a[2], a[2] * b[2])
RMul(a, b) == Rat(a[1] * b[1], a[2] * b[2])
RLeq(a, b) == a[1] * b[2] <= b[1] * a[2]
RLess(a, b) == a[1] * b[2] < b[1] * a[2]
RMin(a, b) == IF RLeq(a, b) THEN a ELSE b
RMax(a, b) == IF RLeq(a, b) THEN b ELSE a
RAbs(a) == <<Abs(a[1]), a[2]>>

\* ------------------------------------------------- sdmiae_attack, pieces
\* mutant of Sign: sign(0) taken as +1
SignOfZeroPositive(a) == IF a[1] >= 0 THEN One ELSE <<-1, 1>>

\* torch.sign: -1, 0 or 1
Sign(a) == IF a[1] > 0 THEN One ELSE IF a[1] < 0 THEN <<-1, 1>> ELSE Zero

\* mutant of Clamp01: the lower bound is not applied
Clamp01UpperOnly(x) == RMin(x, One)

\* mutant of Clamp01: torch.clamp(x, 1, 0), the bounds in the wrong order
Clamp01Swapped(x) == RMin(RMax(x, One), Zero)

\* torch.clamp(x, 0, 1)
Clamp01(x) == RMin(RMax(x, Zero), One)

\* torch.max(torch.min(x, o + epsilon), o - epsilon)
EpsClamp(x, o, eps) == RMax(RMin(x, RAdd(o, eps)), RSub(o, eps))

\* torch.norm(gradient, p=1)
RECURSIVE SumAbs(_, _)
SumAbs(g, S) ==
  IF S = {} THEN 0
  ELSE LET p == CHOOSE q \in S : TRUE IN Abs(g[p]) + SumAbs(g, S \ {p})
L1Norm(g) == SumAbs(g, Pix)

\* gradient /= torch.norm(gradient, p=1) + 1e-10
Normalize(g) == [p \in Pix |-> Rat(g[p], L1Norm(g) + Stabilizer)]

\* mutant of Accumulate: the previous momentum is not decayed by mu
AccumulateNoDecay(m, mom, grad) ==
  [p \in Pix |-> RAdd(mom[p], grad[p])]

\* momentum = mu * momentum + gradient
Accumulate(m, mom, grad) ==
  [p \in Pix |-> RAdd(RMul(m, mom[p]), grad[p])]

\* mutant of StepSize: alpha = epsilon
StepSizeUndivided(eps, n) == eps

\* mutant of StepSize: alpha = epsilon * num_iter
StepSizeTimes(eps, n) == Rat(eps[1] * n, eps[2])

\* alpha = epsilon / num_iter, num_iter # 0
StepSize(eps, n) == Rat(eps[1], eps[2] * n)

\* images + alpha * torch.sign(momentum)
SignStep(imgs, a, mom) ==
  [p \in Pix |-> RAdd(imgs[p], RMul(a, Sign(mom[p])))]

\* lines 67-77: the branch on use_epsilon, then the [0,1] clamp
Perturb(imgs, orig, mom, eps, a, useEps) ==
  LET stepped == SignStep(imgs, a, mom)
      balled == IF useEps
                THEN [p \in Pix |-> EpsClamp(stepped[p], orig[p], eps)]
                ELSE stepped
  IN  [p \in Pix |-> Clamp01(balled[p])]

\* mutant of InRange: range(num_iter + 1)
InRangeInclusive(k, n) == k <= n

\* for t in range(num_iter): the body runs while the index is below n
InRange(k, n) == k < n

\* ------------------------------------------------------------ input sets
\* mutant of DecodedPixels: the decoded image is not brought into [0,1]
DecodedPixelsUnclamped == {Zero, <<1, 2>>, One, <<3, 2>>}

\* pipe.image_processor.postprocess returns pixels in [0,1]
DecodedPixels == {Zero, <<1, 2>>, One}
EpsilonValues == {Zero, <<1, 4>>, <<1, 2>>}
MuValues == {Zero, <<1, 2>>, One}
RawGradients == [Pix -> {-1, 0, 1}]
ZeroTensor == [p \in Pix |-> Zero]

\* pipe.scheduler.set_timesteps(n); pipe.scheduler.timesteps: n timesteps,
\* descending
Timesteps(n) == [k \in 1..n |-> n - k]

\* in100_class_index[i]: the label of class index i
Label(i) == i

VARIABLES
  pc,                  \* position in forward_diffusion / sdmiae_attack
  num_inference_steps, \* argument of forward_diffusion
  timesteps_tensor,    \* the schedule of forward_diffusion
  fd_i,                \* timesteps consumed by the loop of forward_diffusion
  latents,             \* the timesteps passed to scheduler.step, in order
  epsilon, num_iter, mu, use_epsilon,   \* arguments of sdmiae_attack
  images, original_images, momentum, gradient, alpha, t,
  twin_images,         \* the image the same call holds with use_epsilon negated
  m_pc,                \* position in main
  class_lo, class_hi, num_samples,      \* args.class_ids, num_samples_per_class
  ci, sj,              \* loop variables i and j of main
  embedded,            \* the classes whose embeddings were computed, in order
  draws,               \* number of torch.randn calls so far
  m_latents,           \* the draw held by the variable latents of main
  m_image,             \* the value held by the variable image of main
  sampled,             \* the forward_diffusion calls so far, in order
  saved                \* the save calls so far, in order

fdLocals == <<num_inference_steps, timesteps_tensor, fd_i, latents>>
attackArgs == <<epsilon, num_iter, mu, use_epsilon>>
attackLocals == <<images, original_images, momentum, gradient, alpha, t, twin_images>>
engineVars == <<pc, fdLocals, attackArgs, attackLocals>>
mainArgs == <<class_lo, class_hi, num_samples>>
mainVars == <<m_pc, mainArgs, ci, sj, embedded, draws, m_latents, m_image,
              sampled, saved>>
vars == <<engineVars, mainVars>>

\* ------------------------------------------------- the engines (Spec)
MainIdle ==
  /\ m_pc = "idle"
  /\ class_lo = 0 /\ class_hi = 0 /\ num_samples = 0
  /\ ci = 0 /\ sj = 0
  /\ embedded = <<>>
  /\ draws = 0 /\ m_latents = 0
  /\ m_image = <<>>
  /\ sampled = <<>>
  /\ saved = <<>>

EngineLocalsInit ==
  /\ timesteps_tensor = <<>>
  /\ fd_i = 0
  /\ latents = <<>>
  /\ images = ZeroTensor
  /\ original_images = ZeroTensor
  /\ momentum = ZeroTensor
  /\ gradient = ZeroTensor
  /\ alpha = Zero
  /\ t = 0
  /\ twin_images = ZeroTensor

Init ==
  /\ pc = "fd_start"
  /\ num_inference_steps \in 1..MaxSteps
  /\ epsilon \in EpsilonValues
  /\ num_iter \in 0..MaxIter
  /\ mu \in MuValues
  /\ use_epsilon \in BOOLEAN
  /\ EngineLocalsInit
  /\ MainIdle

\* lines 94-96
SetTimesteps ==
  /\ pc = "fd_start"
  /\ timesteps_tensor' = Timesteps(num_inference_steps)
  /\ pc' = "fd_loop"
  /\ UNCHANGED <<num_inference_steps, fd_i, latents, attackArgs, attackLocals, mainVars>>

\* lines 99-105: one pass of the loop body, ending in scheduler.step
DenoiseStep ==
  /\ pc = "fd_loop"
  /\ fd_i < Len(timesteps_tensor)
  /\ latents' = Append(latents, timesteps_tensor[fd_i + 1])
  /\ fd_i' = fd_i + 1
  /\ UNCHANGED <<pc, num_inference_steps, timesteps_tensor, attackArgs, attackLocals, mainVars>>

\* lines 107-110: the loop is exhausted; decode, postprocess and return.  The
\* frame of forward_diffusion is gone; the image returned is the images
\* argument of sdmiae_attack (line 165).
Decode ==
  /\ pc = "fd_loop"
  /\ fd_i >= Len(timesteps_tensor)
  /\ \E img \in [Pix -> DecodedPixels] : images' = img
  /\ num_inference_steps' = 0
  /\ timesteps_tensor' = <<>>
  /\ fd_i' = 0
  /\ latents' = <<>>
  /\ pc' = "atk_start"
  /\ UNCHANGED <<attackArgs, original_images, momentum, gradient, alpha, t, twin_images, mainVars>>

\* lines 46-49; epsilon / num_iter raises ZeroDivisionError when num_iter = 0
AttackBegin ==
  /\ pc = "atk_start"
  /\ original_images' = images
  /\ twin_images' = images
  /\ momentum' = ZeroTensor
  /\ IF num_iter = 0
       THEN /\ pc' = "error"
            /\ UNCHANGED alpha
       ELSE /\ alpha' = StepSize(epsilon, num_iter)
            /\ pc' = "atk_loop"
  /\ UNCHANGED <<fdLocals, attackArgs, images, gradient, t, mainVars>>

\* lines 51-79: one iteration
AttackIterate ==
  /\ pc = "atk_loop"
  /\ InRange(t, num_iter)
  /\ \E g \in RawGradients :
       /\ gradient' = Normalize(g)
       /\ momentum' = Accumulate(mu, momentum, gradient')
       /\ images' = Perturb(images, original_images, momentum', epsilon, alpha, use_epsilon)
       /\ twin_images' = Perturb(twin_images, original_images, momentum', epsilon, alpha, ~use_epsilon)
  /\ t' = t + 1
  /\ UNCHANGED <<pc, fdLocals, attackArgs, original_images, alpha, mainVars>>

\* line 81
AttackReturn ==
  /\ pc = "atk_loop"
  /\ ~InRange(t, num_iter)
  /\ pc' = "returned"
  /\ UNCHANGED <<fdLocals, attackArgs, attackLocals, mainVars>>

Next ==
  \/ SetTimesteps
  \/ DenoiseStep
  \/ Decode
  \/ AttackBegin
  \/ AttackIterate
  \/ AttackReturn

Spec == Init /\ [][Next]_vars

\* ---------------------------------------------------- main (SpecMain)
EngineIdle ==
  /\ pc = "idle"
  /\ num_inference_steps = 0
  /\ epsilon = Zero /\ num_iter = 0 /\ mu = Zero /\ use_epsilon = TRUE
  /\ EngineLocalsInit

InitMain ==
  /\ EngineIdle
  /\ m_pc = "classes"
  /\ class_lo \in 0..(MaxClasses - 1)
  /\ class_hi \in 0..(MaxClasses - 1)
  /\ num_samples \in 0..MaxSamples
  /\ ci = class_lo
  /\ sj = 0
  /\ embedded = <<>>
  /\ draws = 0 /\ m_latents = 0
  /\ m_image = <<>>
  /\ sampled = <<>>
  /\ saved = <<>>

\* lines 142-155: the head of the class loop, the embeddings of the class and
\* one torch.randn draw
ClassSetup ==
  /\ m_pc = "classes"
  /\ ci <= class_hi
  /\ embedded' = Append(embedded, ci)
  /\ draws' = draws + 1
  /\ m_latents' = draws + 1
  /\ sj' = 0
  /\ m_pc' = "samples"
  /\ UNCHANGED <<engineVars, mainArgs, ci, m_image, sampled, saved>>

\* line 142: range(class_ids[0], class_ids[1] + 1) is exhausted
ClassesDone ==
  /\ m_pc = "classes"
  /\ ci > class_hi
  /\ m_pc' = "done"
  /\ UNCHANGED <<engineVars, mainArgs, ci, sj, embedded, draws, m_latents, m_image, sampled, saved>>

\* lines 158-162: the head of the sample loop and forward_diffusion on the
\* variable latents, which the call leaves as it is
Sample ==
  /\ m_pc = "samples"
  /\ sj < num_samples
  /\ m_image' = [stage |-> "sampled", class |-> ci, sample |-> sj, latent |-> m_latents]
  /\ sampled' = Append(sampled, [class |-> ci, sample |-> sj, latent |-> m_latents])
  /\ m_pc' = "attack"
  /\ UNCHANGED <<engineVars, mainArgs, ci, sj, embedded, draws, m_latents, saved>>

\* mutant of Attack: the sampled image goes to the save step as it is
AttackSkipped ==
  /\ m_pc = "attack"
  /\ m_pc' = "save"
  /\ UNCHANGED <<engineVars, mainArgs, ci, sj, embedded, draws, m_latents, m_image, sampled, saved>>

\* line 165: sdmiae_attack on the variable image
Attack ==
  /\ m_pc = "attack"
  /\ m_image' = [m_image EXCEPT !.stage = "attacked"]
  /\ m_pc' = "save"
  /\ UNCHANGED <<engineVars, mainArgs, ci, sj, embedded, draws, m_latents, sampled, saved>>

\* lines 168-170: results/{label}/sample_{j:02d}.png
Save ==
  /\ m_pc = "save"
  /\ saved' = Append(saved, [label |-> Label(ci), sample |-> sj, image |-> m_image])
  /\ sj' = sj + 1
  /\ m_pc' = "samples"
  /\ UNCHANGED <<engineVars, mainArgs, ci, embedded, draws, m_latents, m_image, sampled>>

\* line 158: range(num_samples_per_class) is exhausted; next class
SamplesDone ==
  /\ m_pc = "samples"
  /\ sj >= num_samples
  /\ ci' = ci + 1
  /\ m_pc' = "classes"
  /\ UNCHANGED <<engineVars, mainArgs, sj, embedded, draws, m_latents, m_image, sampled, saved>>

\* an exception raised by a call of lines 143-170 is caught nowhere: main ends
Fail ==
  /\ \/ m_pc = "classes" /\ ci <= class_hi
     \/ m_pc = "samples" /\ sj < num_samples
     \/ m_pc = "attack"
     \/ m_pc = "save"
  /\ m_pc' = "aborted"
  /\ UNCHANGED <<engineVars, mainArgs, ci, sj, embedded, draws, m_latents, m_image, sampled, saved>>

NextMain ==
  \/ ClassSetup
  \/ ClassesDone
  \/ Sample
  \/ Attack
  \/ Save
  \/ SamplesDone
  \/ Fail

SpecMain == InitMain /\ [][NextMain]_vars

\* ================================================================ claims
InAttack == pc \in {"atk_loop", "returned"}
Dist(p) == RAbs(RSub(images[p], original_images[p]))
InUnit(x) == RLeq(Zero, x) /\ RLeq(x, One)

\* ---- C1 (Spec)
\* C1: after every iteration of sdmiae_attack, and so at the return, every
\* pixel of the image lies in [0,1], with use_epsilon set or not.
C1_PixelRange ==
  (InAttack /\ t >= 1) => \A p \in Pix : InUnit(images[p])

\* a first iteration with use_epsilon unset pushed a pixel that was 1 upwards
C1_Witness ==
  /\ pc = "atk_loop" /\ t = 1 /\ ~use_epsilon /\ alpha # Zero
  /\ \E p \in Pix : /\ original_images[p] = One
                    /\ Sign(momentum[p]) = One
                    /\ images[p] = One

\* ---- C2 (Spec)
\* C2: with use_epsilon set and the input image in [0,1], after every
\* iteration each pixel is within epsilon of the same pixel of the snapshot
\* original_images; the [0,1] clamp that follows keeps it there.
C2_EpsBall ==
  (use_epsilon /\ InAttack /\ t >= 1) => \A p \in Pix : RLeq(Dist(p), epsilon)

\* a returned image with one pixel on the border of the ball and one pixel
\* held at 1 by the [0,1] clamp
C2_Witness ==
  /\ pc = "returned" /\ use_epsilon /\ epsilon # Zero
  /\ \E p \in Pix : Dist(p) = epsilon
  /\ \E q \in Pix : /\ original_images[q] = One
                    /\ images[q] = One
                    /\ Sign(momentum[q]) = One

\* ---- C4 (Spec)
\* the steps a run still has to take
Remaining ==
  CASE pc = "fd_start" -> num_inference_steps + num_iter + 4
    [] pc = "fd_loop" -> (Len(timesteps_tensor) - fd_i) + num_iter + 3
    [] pc = "atk_start" -> num_iter + 2
    [] pc = "atk_loop" -> (num_iter - t) + 1
    [] OTHER -> 0

\* C4: forward_diffusion calls scheduler.step exactly num_inference_steps
\* times, once per timestep and in schedule order, and leaves its loop only
\* then; sdmiae_attack changes image and momentum only in counted iterations
\* and returns after exactly num_iter of them; a run that has not ended can
\* take a step (for an iteration of the attack: its guard holds), and every
\* step brings the end nearer.
C4_StepCount ==
  /\ [](pc = "fd_loop" =>
          /\ Len(timesteps_tensor) = num_inference_steps
          /\ fd_i <= num_inference_steps
          /\ latents = SubSeq(timesteps_tensor, 1, fd_i))
  /\ [][(pc = "fd_loop" /\ pc' # "fd_loop") =>
          (fd_i = num_inference_steps /\ latents = timesteps_tensor)]_vars
  /\ [](pc = "atk_loop" => t <= num_iter)
  /\ [](pc = "returned" => t = num_iter)
  /\ [][(pc = "atk_loop" /\ (images' # images \/ momentum' # momentum)) =>
          t' = t + 1]_vars
  /\ [](\/ pc \in {"returned", "error"}
        \/ ENABLED (SetTimesteps \/ DenoiseStep \/ Decode \/ AttackBegin \/ AttackReturn)
        \/ (pc = "atk_loop" /\ InRange(t, num_iter)))
  /\ [](Remaining >= 0)
  /\ [][Remaining' < Remaining]_vars

\* a call that returned after two or more iterations
C4_Witness == pc = "returned" /\ t = num_iter /\ num_iter >= 2

\* ---- C5 (Spec)
\* C5: with epsilon = 0 and use_epsilon set, the image after every iteration
\* and the returned image equal original_images.
C5_ZeroEps ==
  (use_epsilon /\ epsilon = Zero /\ InAttack /\ t >= 1) => images = original_images

\* a call with epsilon = 0 that returned after several iterations with a
\* momentum that is not zero
C5_Witness ==
  /\ pc = "returned" /\ use_epsilon /\ epsilon = Zero
  /\ t >= 2 /\ momentum # ZeroTensor

\* ---- C6 (Spec)
\* the <<image, momentum>> pairs sdmiae_attack can hold after k iterations on
\* the input image orig
RECURSIVE ReachAfter(_, _, _, _, _, _)
ReachAfter(k, orig, eps, n, m, useEps) ==
  IF k = 0 THEN {<<orig, ZeroTensor>>}
  ELSE LET prev == ReachAfter(k - 1, orig, eps, n, m, useEps)
           step(s, g) ==
             LET mom == Accumulate(m, s[2], Normalize(g))
             IN  <<Perturb(s[1], orig, mom, eps, StepSize(eps, n), useEps), mom>>
       IN  {step(s, g) : s \in prev, g \in RawGradients}

C7_Original ==
  [][(pc = "atk_loop" /\ t' = t + 1 /\ gradient' = ZeroTensor) =>
       (pc' # "error" /\ images' = images)]_vars

\* C7 amended: an iteration whose gradient is exactly zero raises no error,
\* and leaves the image as it was when mu times the momentum carried into
\* the iteration is zero (mu = 0, or the first iteration, or a carried
\* momentum of zero).
C7_ZeroGradient ==
  [][(pc = "atk_loop" /\ t' = t + 1 /\ gradient' = ZeroTensor) =>
       /\ pc' # "error"
       /\ (\A p \in Pix : RMul(mu, momentum[p]) = Zero) => images' = images]_vars

\* a later iteration with zero gradient and zero momentum, after the image
\* had moved
C7_Witness ==
  /\ pc = "atk_loop" /\ t >= 2 /\ alpha # Zero
  /\ gradient = ZeroTensor /\ momentum = ZeroTensor
  /\ images # original_images

\* ---- C8 (Spec)
\* C8: the momentum is zero when the loop starts; an iteration sets it to mu
\* times its previous value plus the gradient of the iteration divided by
\* its L1 norm plus the constant of line 62; nothing else changes it; with
\* mu = 0 it equals the normalized gradient of the iteration.
C8_Momentum ==
  /\ []((pc = "atk_loop" /\ t = 0) => momentum = ZeroTensor)
  /\ []((InAttack /\ t >= 1 /\ mu = Zero) => momentum = gradient)
  /\ [][(pc = "atk_loop" /\ t' = t + 1) =>
          /\ \E g \in RawGradients : \A p \in Pix :
               RMul(gradient'[p], <<L1Norm(g) + Stabilizer, 1>>) = <<g[p], 1>>
          /\ \A p \in Pix :
               momentum'[p] = RAdd(RMul(mu, momentum[p]), gradient'[p])]_vars
  /\ [][(pc = "atk_loop" /\ t' = t) => momentum' = momentum]_vars

\* a returned call with mu = 1/2 whose momentum carries an earlier gradient
C8_Witness ==
  /\ pc = "returned" /\ mu = <<1, 2>> /\ t >= 2
  /\ gradient # ZeroTensor /\ momentum # gradient

C3_FreshLatent ==
  /\ \A k1, k2 \in DOMAIN embedded : embedded[k1] = embedded[k2] => k1 = k2
  /\ \A k1, k2 \in DOMAIN sampled :
       (k1 # k2 /\ sampled[k1].class = sampled[k2].class)
         => sampled[k1].latent # sampled[k2].latent

\* ---- C9 (SpecMain)
SameKey(a, b) == a.label = b.label /\ a.sample = b.sample

\* C9: every saved image is the attack's output on the sampler's output of
\* the pair it is saved under; a pair is saved at most once, and once main
\* is done every pair of the class range and sample range is saved; the
\* image in flight belongs to the current pair and one pair is in flight at
\* a time; a step, a failure included, only appends to what is saved.
C9_Pipeline ==
  /\ [](\A k \in DOMAIN saved :
          /\ saved[k].image.stage = "attacked"
          /\ Label(saved[k].image.class) = saved[k].label
          /\ saved[k].image.sample = saved[k].sample)
  /\ [](\A k1, k2 \in DOMAIN saved : SameKey(saved[k1], saved[k2]) => k1 = k2)
  /\ [](m_pc = "done" =>
          \A c \in class_lo..class_hi : \A j \in 0..(num_samples - 1) :
            \E k \in DOMAIN saved : saved[k].label = Label(c) /\ saved[k].sample = j)
  /\ [](m_pc \in {"attack", "save"} =>
          /\ m_image.class = ci /\ m_image.sample = sj
          /\ m_image.stage = (IF m_pc = "attack" THEN "sampled" ELSE "attacked")
          /\ Len(sampled) = Len(saved) + 1)
  /\ [](m_pc \in {"classes", "samples", "done"} => Len(sampled) = Len(saved))
  /\ [][/\ Len(saved') >= Len(saved)
        /\ SubSeq(saved', 1, Len(saved)) = saved]_vars

\* main failed in a later pair with samples of two classes already saved
C9_Witness ==
  /\ m_pc = "aborted" /\ Len(saved) >= 2
  /\ saved[1].label # saved[Len(saved)].label

====
